---- MODULE Spec2Model ----
(***************************************************************************)
(* Completion model providers of the Flexpilot extension: the llama.cpp,   *)
(* DeepSeek and Ollama adapters (src/providers/llamacpp.ts, deepseek.ts,    *)
(* ollama.ts), their configuration flows, their constructors and their      *)
(* invoke / encode / decode calls, together with the configuration store    *)
(* they read and write.                                                     *)
(***************************************************************************)
EXTENDS Integers, Sequences, FiniteSets, TLC

VARIABLES
    store,      \* storage.models: nickname -> stored model configuration
    pending,    \* storage.models.set calls that have not settled yet
    settled,    \* the set calls that have settled: which run's, and how
    cfg,        \* the configure(nickname) run in progress (or the last one)
    runs,       \* configure runs started so far
    catalog,    \* the static table behind getCompletionModelMetadata
    inst,       \* outcome of the latest `new XxxCompletionModelProvider(nickname)`
    call        \* the invoke / encode / decode call in progress (or the last one)

vars == <<store, pending, settled, cfg, runs, catalog, inst, call>>

----------------------------------------------------------------------------
(* Bounds and small input domains *)

\* configure runs explored in one behaviour
MaxRuns == 2

\* default number of retries of the OpenAI client, which deepseek.ts
\* constructs with { apiKey, baseURL } only
MaxRetries == 2

Adapter == {"llamacpp", "deepseek", "ollama"}
Nick == {"n1", "n2"}

None == << >>
Some(x) == <<x>>

\* what showInputBox can hand back: undefined (None) or the typed text, a
\* sequence of characters
UrlInput == {None, Some(<<"a">>), Some(<<" ", "a", " ">>), Some(<<"b">>)}
KeyInput == {None, Some(<<"k", " ">>)}

\* model names: m1 may be in the catalog, m2 never is
RemoteModel == {"m1", "m2"}
ModelId == {"deepseek-chat"} \cup RemoteModel

----------------------------------------------------------------------------
(* Pure helpers *)

\* static readonly providerId of each class
ProviderId(a) ==
    CASE a = "llamacpp" -> "llama.cpp-completion"
      [] a = "deepseek" -> "deepseek-completion"
      [] a = "ollama"   -> "ollama-completion"

RECURSIVE TrimStart(_)
TrimStart(s) ==
    IF s # << >> /\ Head(s) = " " THEN TrimStart(Tail(s)) ELSE s

RECURSIVE TrimEnd(_)
TrimEnd(s) ==
    IF s # << >> /\ s[Len(s)] = " " THEN TrimEnd(SubSeq(s, 1, Len(s) - 1)) ELSE s

\* String.prototype.trim
Trim(s) == TrimEnd(TrimStart(s))

\* getCompletionModelMetadata(model): None when the table has no entry, else
\* the entry's contextWindow
Catalogs ==
    { [m \in ModelId |-> CASE m = "deepseek-chat" -> Some(65536)
                           [] m = "m1" -> Some(8192)
                           [] OTHER -> None],
      [m \in ModelId |-> CASE m = "m1" -> Some(0)
                           [] OTHER -> None] }

getCompletionModelMetadata(m) == catalog[m]

\* storage.models.get(nickname): the record, or undefined
StorageGet(n) == IF n \in DOMAIN store THEN Some(store[n]) ELSE None

\* storage.models.set(nickname, value) once it takes effect
StorageSet(n, v) == [k \in DOMAIN store \cup {n} |-> IF k = n THEN v ELSE store[k]]

----------------------------------------------------------------------------
(* configure(nickname) *)

CfgIdle ==
    [pc |-> "idle", adapter |-> "none", nick |-> "none", run |-> 0,
     apiKey |-> None, baseUrl |-> None, modelsList |-> None, model |-> None,
     failedAt |-> "none", effects |-> {}]

CfgFail(step) == [cfg EXCEPT !.pc = "failed", !.failedAt = step]

\* the record each adapter hands to storage.models.set
LlamaCppRecord ==
    [contextWindow |-> 32768, baseUrl |-> cfg.baseUrl[1], model |-> "",
     nickname |-> cfg.nick, providerId |-> ProviderId("llamacpp")]

DeepSeekRecord(metadata) ==
    [contextWindow |-> metadata[1], baseUrl |-> cfg.baseUrl[1],
     apiKey |-> cfg.apiKey[1], model |-> cfg.model[1],
     nickname |-> cfg.nick, providerId |-> ProviderId("deepseek")]

OllamaRecord ==
    LET cw == getCompletionModelMetadata(cfg.model[1])
    IN [contextWindow |-> IF cw # None /\ cw[1] # 0 THEN cw[1] ELSE 4096,
        baseUrl |-> cfg.baseUrl[1], model |-> cfg.model[1],
        nickname |-> cfg.nick, providerId |-> ProviderId("ollama")]

\* a storage.models.set call in flight
SetOp(rec, awaited) == [run |-> cfg.run, nick |-> cfg.nick, value |-> rec, awaited |-> awaited]

\* configure is entered: the existing record is read (it only pre-fills the
\* prompts) and the first prompt is shown
ConfigureStart(a, n) ==
    /\ cfg.pc \in {"idle", "resolved", "failed"}
    /\ runs < MaxRuns
    /\ runs' = runs + 1
    /\ cfg' = [CfgIdle EXCEPT !.pc = IF a = "deepseek" THEN "apiKey" ELSE "baseUrl",
                              !.adapter = a, !.nick = n, !.run = runs + 1]
    /\ UNCHANGED <<store, pending, settled, catalog, inst, call>>

\* getApiKeyInput resolves (DeepSeek only)
ApiKeyInput(v) ==
    /\ cfg.pc = "apiKey"
    /\ cfg' = IF v = None
              THEN CfgFail("apiKey")
              ELSE [cfg EXCEPT !.pc = "baseUrl", !.apiKey = Some(Trim(v[1]))]
    /\ UNCHANGED <<store, pending, settled, runs, catalog, inst, call>>

\* the base URL prompt resolves; on a value the next awaited step is started
BaseUrlInput(v) ==
    /\ cfg.pc = "baseUrl"
    /\ cfg' = IF v = None
              THEN CfgFail("baseUrl")
              ELSE LET url == Some(Trim(v[1])) IN
                   CASE cfg.adapter = "llamacpp" ->
                          [cfg EXCEPT !.pc = "probe", !.baseUrl = url,
                                      !.effects = @ \cup {"probe"}]
                     [] cfg.adapter = "deepseek" ->
                          [cfg EXCEPT !.pc = "download", !.baseUrl = url,
                                      !.model = Some("deepseek-chat"),
                                      !.effects = @ \cup {"download"}]
                     [] cfg.adapter = "ollama" ->
                          [cfg EXCEPT !.pc = "tags", !.baseUrl = url,
                                      !.effects = @ \cup {"tags"}]
    /\ UNCHANGED <<store, pending, settled, runs, catalog, inst, call>>

\* the models of the /api/tags answer that the catalog knows
ModelPickUpItems(modelsList) ==
    {m \in modelsList : getCompletionModelMetadata(m) # None}

\* configure without the `modelPickUpItems.length === 0` check
AfterTagsUnchecked(modelsList) ==
    [cfg EXCEPT !.pc = "pick", !.modelsList = Some(modelsList),
                !.effects = @ \cup {"pick"}]

\* configure after the model list arrived: no pickable model is an error,
\* otherwise the quick pick is shown
AfterTags(modelsList) ==
    IF ModelPickUpItems(modelsList) = {}
    THEN [cfg EXCEPT !.pc = "failed", !.failedAt = "noModels",
                     !.modelsList = Some(modelsList)]
    ELSE [cfg EXCEPT !.pc = "pick", !.modelsList = Some(modelsList),
                     !.effects = @ \cup {"pick"}]

\* GET /api/tags settles (Ollama only): ok is response.ok, modelsList is
\* data.models || []
TagsResponse(ok, modelsList) ==
    /\ cfg.pc = "tags"
    /\ cfg' = IF ~ok THEN CfgFail("tags") ELSE AfterTags(modelsList)
    /\ UNCHANGED <<store, pending, settled, runs, catalog, inst, call>>

\* showQuickPick resolves (Ollama only)
PickModel(choice) ==
    /\ cfg.pc = "pick"
    /\ (IF choice = None THEN TRUE
        ELSE choice[1] \in ModelPickUpItems(cfg.modelsList[1]))
    /\ cfg' = IF choice = None
              THEN CfgFail("pick")
              ELSE [cfg EXCEPT !.pc = "download", !.model = choice,
                               !.effects = @ \cup {"download"}]
    /\ UNCHANGED <<store, pending, settled, runs, catalog, inst, call>>

\* Tokenizers.download settles (DeepSeek, Ollama); the probe is sent next
DownloadDone(ok) ==
    /\ cfg.pc = "download"
    /\ cfg' = IF ~ok
              THEN CfgFail("download")
              ELSE [cfg EXCEPT !.pc = "probe", !.effects = @ \cup {"probe"}]
    /\ UNCHANGED <<store, pending, settled, runs, catalog, inst, call>>

\* a DeepSeek configure that saves before it looks the metadata up
AfterProbeSaveFirst ==
    CASE cfg.adapter = "llamacpp" ->
           <<[cfg EXCEPT !.pc = "resolved", !.effects = @ \cup {"set"}],
             {SetOp(LlamaCppRecord, FALSE)}>>
      [] cfg.adapter = "deepseek" ->
           LET metadata == getCompletionModelMetadata(cfg.model[1]) IN
           <<[cfg EXCEPT !.pc = IF metadata = None THEN "failed" ELSE "persist",
                         !.failedAt = IF metadata = None THEN "metadata" ELSE @,
                         !.effects = @ \cup {"set"}],
             {SetOp(DeepSeekRecord(IF metadata = None THEN Some(4096) ELSE metadata),
                    metadata # None)}>>
      [] cfg.adapter = "ollama" ->
           <<[cfg EXCEPT !.pc = "persist", !.effects = @ \cup {"set"}],
             {SetOp(OllamaRecord, TRUE)}>>

\* what configure does once the connectivity probe has succeeded:
\* <<next cfg, set calls issued>>
AfterProbe ==
    CASE cfg.adapter = "llamacpp" ->
           \* storage.models.set is called and not awaited
           <<[cfg EXCEPT !.pc = "resolved", !.effects = @ \cup {"set"}],
             {SetOp(LlamaCppRecord, FALSE)}>>
      [] cfg.adapter = "deepseek" ->
           LET metadata == getCompletionModelMetadata(cfg.model[1]) IN
           IF metadata = None
           THEN <<CfgFail("metadata"), {}>>
           ELSE <<[cfg EXCEPT !.pc = "persist", !.effects = @ \cup {"set"}],
                  {SetOp(DeepSeekRecord(metadata), TRUE)}>>
      [] cfg.adapter = "ollama" ->
           <<[cfg EXCEPT !.pc = "persist", !.effects = @ \cup {"set"}],
             {SetOp(OllamaRecord, TRUE)}>>

\* the connectivity probe settles
ProbeResponse(ok) ==
    /\ cfg.pc = "probe"
    /\ IF ~ok
       THEN cfg' = CfgFail("probe") /\ pending' = pending
       ELSE cfg' = AfterProbe[1] /\ pending' = pending \cup AfterProbe[2]
    /\ UNCHANGED <<store, settled, runs, catalog, inst, call>>

\* a storage.models.set call takes effect; an awaiting configure resumes
SetComplete(op) ==
    /\ op \in pending
    /\ pending' = pending \ {op}
    /\ store' = StorageSet(op.nick, op.value)
    /\ settled' = settled \cup {[run |-> op.run, ok |-> TRUE]}
    /\ cfg' = IF op.awaited /\ cfg.pc = "persist" /\ cfg.run = op.run
              THEN [cfg EXCEPT !.pc = "resolved"]
              ELSE cfg
    /\ UNCHANGED <<runs, catalog, inst, call>>

\* a storage.models.set call rejects; an awaiting configure rejects with it,
\* a call that was not awaited rejects unobserved
SetFail(op) ==
    /\ op \in pending
    /\ pending' = pending \ {op}
    /\ settled' = settled \cup {[run |-> op.run, ok |-> FALSE]}
    /\ cfg' = IF op.awaited /\ cfg.pc = "persist" /\ cfg.run = op.run
              THEN CfgFail("persist")
              ELSE cfg
    /\ UNCHANGED <<store, runs, catalog, inst, call>>

----------------------------------------------------------------------------
(* constructor(nickname) and initialize() *)

NoInst == [status |-> "none", adapter |-> "none", nick |-> "none",
           config |-> None, tokenizer |-> None]

\* a constructor without the `if (!config) throw`
ConstructResultUnchecked(a, n) ==
    [status |-> "ok", adapter |-> a, nick |-> n,
     config |-> StorageGet(n), tokenizer |-> None]

\* new XxxCompletionModelProvider(nickname): throws when the store has no
\* record, otherwise keeps the record as this.config
ConstructResult(a, n) ==
    LET config == StorageGet(n) IN
    IF config = None
    THEN [status |-> "ConfigNotFound", adapter |-> a, nick |-> n,
          config |-> None, tokenizer |-> None]
    ELSE [status |-> "ok", adapter |-> a, nick |-> n,
          config |-> config, tokenizer |-> None]

\* JavaScript values that cross the wire or come back from a call
Undefined == [type |-> "undefined"]
Str(s) == [type |-> "string", val |-> s]
Arr(s) == [type |-> "array", val |-> s]
Nullish(v) == v.type \in {"undefined", "null"}
\* the ?? operator
Coalesce(v, d) == IF Nullish(v) THEN d ELSE v

CallIdle ==
    [pc |-> "idle", op |-> "none", signal |-> "none", preAborted |-> FALSE,
     firedInFlight |-> FALSE, sent |-> 0, retriesRemaining |-> 0,
     req |-> None, resp |-> None, body |-> None, out |-> None, err |-> None,
     log |-> {}]

CallOver == call.pc \in {"idle", "returned", "rejected"}

Construct(a, n) ==
    /\ CallOver
    /\ inst' = ConstructResult(a, n)
    /\ call' = CallIdle
    /\ UNCHANGED <<store, pending, settled, cfg, runs, catalog>>

\* the extension loads a stored model with the class its providerId names
LoadProvider(n) ==
    /\ n \in DOMAIN store
    /\ \E a \in Adapter : ProviderId(a) = store[n].providerId /\ Construct(a, n)

\* initialize(): llama.cpp only logs; DeepSeek and Ollama keep the tokenizer
\* Tokenizers.get resolves to, or reject with it
Initialize(ok) ==
    /\ inst.status = "ok"
    /\ CallOver
    /\ inst' = IF inst.adapter = "llamacpp" \/ ~ok
               THEN inst
               ELSE [inst EXCEPT !.tokenizer = Some(inst.config[1].model)]
    /\ UNCHANGED <<store, pending, settled, cfg, runs, catalog, call>>

----------------------------------------------------------------------------
(* invoke(options), encode(text), decode(tokens) *)

Field(r, f) == IF f \in DOMAIN r THEN Some(r[f]) ELSE None

\* backend answers: status line
Responses ==
    { [status |-> 200, statusText |-> "OK"],
      [status |-> 404, statusText |-> "Not Found"],
      [status |-> 500, statusText |-> "Internal Server Error"],
      [status |-> 503, statusText |-> ""] }

\* Response.ok
Ok(r) == r.status >= 200 /\ r.status <= 299

\* the OpenAI client's rule for resending after an error status
ShouldRetry(status) == status \in {408, 409, 429} \/ status >= 500

Text == {Undefined, Str(""), Str("x")}

\* backend answers: parsed JSON body of a 2xx answer, per endpoint
Bodies(a, op) ==
    CASE a = "llamacpp" /\ op = "invoke" ->
           [content : Text, truncated : BOOLEAN, timings : BOOLEAN]
      [] a = "llamacpp" /\ op = "encode" ->
           [tokens : {Undefined, Arr(<<1, 2>>)}]
      [] a = "llamacpp" /\ op = "decode" ->
           [content : Text]
      [] a = "deepseek" ->
           [choices : {Undefined, Arr(<< >>)} \cup {Arr(<<[text |-> t]>>) : t \in Text}]
      [] a = "ollama" ->
           [response : Text, evalStats : BOOLEAN]

Err(class, status, statusText, body) ==
    [class |-> class, status |-> status, statusText |-> statusText, body |-> body]

Reject(c, e) == [c EXCEPT !.pc = "rejected", !.err = Some(e)]

\* the error an aborted signal produces: fetch's AbortError, or the OpenAI
\* client's APIUserAbortError
AbortErr == IF inst.adapter = "deepseek"
            THEN Err("APIUserAbortError", None, None, None)
            ELSE Err("AbortError", None, None, None)

\* a request made without handing the signal over
SendRequestNoSignal(c) ==
    [c EXCEPT !.pc = "headers", !.sent = @ + 1, !.resp = None]

\* fetch(url, { ..., signal }) / the client's request: nothing is sent on an
\* aborted signal
SendRequest(c) ==
    IF c.signal = "aborted"
    THEN Reject(c, AbortErr)
    ELSE [c EXCEPT !.pc = "headers", !.sent = @ + 1, !.resp = None]

\* calls that read the stored record again instead of this.config
RequestFromStore(op) ==
    LET config == store[inst.nick] IN
    CASE inst.adapter = "llamacpp" ->
           [endpoint |-> CASE op = "invoke" -> "/infill"
                           [] op = "encode" -> "/tokenize"
                           [] op = "decode" -> "/detokenize",
            baseUrl |-> Field(config, "baseUrl"), model |-> None, apiKey |-> None]
      [] inst.adapter = "deepseek" ->
           [endpoint |-> "/completions", baseUrl |-> Field(config, "baseUrl"),
            model |-> Field(config, "model"), apiKey |-> Field(config, "apiKey")]
      [] inst.adapter = "ollama" ->
           [endpoint |-> "/api/generate", baseUrl |-> Field(config, "baseUrl"),
            model |-> Field(config, "model"), apiKey |-> None]

\* what each call puts on the wire, from this.config
Request(op) ==
    LET config == inst.config[1] IN
    CASE inst.adapter = "llamacpp" ->
           [endpoint |-> CASE op = "invoke" -> "/infill"
                           [] op = "encode" -> "/tokenize"
                           [] op = "decode" -> "/detokenize",
            baseUrl |-> Field(config, "baseUrl"), model |-> None, apiKey |-> None]
      [] inst.adapter = "deepseek" ->
           [endpoint |-> "/completions", baseUrl |-> Field(config, "baseUrl"),
            model |-> Field(config, "model"), apiKey |-> Field(config, "apiKey")]
      [] inst.adapter = "ollama" ->
           [endpoint |-> "/api/generate", baseUrl |-> Field(config, "baseUrl"),
            model |-> Field(config, "model"), apiKey |-> None]

\* invoke(options) up to its first await; sig is options.signal
InvokeStart(sig) ==
    /\ inst.status = "ok"
    /\ CallOver
    /\ call' = SendRequest(
                 [CallIdle EXCEPT !.op = "invoke", !.signal = sig,
                                  !.preAborted = (sig = "aborted"),
                                  !.req = Some(Request("invoke")),
                                  !.retriesRemaining =
                                      IF inst.adapter = "deepseek" THEN MaxRetries ELSE 0])
    /\ UNCHANGED <<store, pending, settled, cfg, runs, catalog, inst>>

\* encode / decode that ask the backend whatever the adapter
CodecCallRemote(op) ==
    SendRequest([CallIdle EXCEPT !.op = op, !.req = Some(Request(op))])

\* encode / decode up to the first await: llama.cpp fetches, DeepSeek and
\* Ollama call this.tokenizer, which is undefined before initialize
CodecCall(op) ==
    IF inst.adapter = "llamacpp"
    THEN SendRequest([CallIdle EXCEPT !.op = op, !.req = Some(Request(op))])
    ELSE IF inst.tokenizer = None
    THEN Reject([CallIdle EXCEPT !.op = op], Err("TypeError", None, None, None))
    ELSE [CallIdle EXCEPT !.op = op, !.pc = "returned",
                          !.out = Some(IF op = "encode" THEN Arr(<<1, 2>>)
                                       ELSE Str("x"))]

\* encode / decode: a request to the server for llama.cpp, the local
\* tokenizer for DeepSeek and Ollama
CodecStart(op) ==
    /\ inst.status = "ok"
    /\ CallOver
    /\ call' = CodecCall(op)
    /\ UNCHANGED <<store, pending, settled, cfg, runs, catalog, inst>>

\* the thrown error of a non-2xx answer, as each adapter builds its message
BackendError(r, body) ==
    CASE inst.adapter = "llamacpp" ->
           Err("Error", Some(r.status), Some(r.statusText), body)
      [] inst.adapter = "ollama" ->
           Err("Error", None, Some(r.statusText), None)
      [] inst.adapter = "deepseek" ->
           Err("APIError", Some(r.status), None, body)

\* the status line arrives
OnHeaders(r) ==
    LET c == [call EXCEPT !.resp = Some(r)] IN
    IF Ok(r) THEN [c EXCEPT !.pc = "body"]
    ELSE CASE inst.adapter = "llamacpp" /\ call.op = "invoke" ->
                \* await response.text().catch(() => "Unknown error")
                [c EXCEPT !.pc = "errBody"]
           [] inst.adapter = "llamacpp" /\ call.op # "invoke" ->
                Reject(c, BackendError(r, None))
           [] inst.adapter = "ollama" ->
                Reject(c, BackendError(r, None))
           [] inst.adapter = "deepseek" ->
                IF c.retriesRemaining > 0 /\ ShouldRetry(r.status)
                THEN [c EXCEPT !.pc = "backoff", !.retriesRemaining = @ - 1]
                ELSE Reject(c, BackendError(r, Some("message")))

HeadersArrive(r) ==
    /\ call.pc = "headers"
    /\ call' = OnHeaders(r)
    /\ UNCHANGED <<store, pending, settled, cfg, runs, catalog, inst>>

\* the request fails without an answer
NetworkFail ==
    /\ call.pc = "headers"
    /\ call' = IF inst.adapter = "deepseek"
               THEN IF call.retriesRemaining > 0
                    THEN [call EXCEPT !.pc = "backoff", !.retriesRemaining = @ - 1]
                    ELSE Reject(call, Err("APIConnectionError", None, None, None))
               ELSE Reject(call, Err("TypeError", None, None, None))
    /\ UNCHANGED <<store, pending, settled, cfg, runs, catalog, inst>>

\* the OpenAI client sends the request again after its backoff
RetrySend ==
    /\ call.pc = "backoff"
    /\ call' = SendRequest(call)
    /\ UNCHANGED <<store, pending, settled, cfg, runs, catalog, inst>>

\* the value each call returns for a parsed 2xx body
Output(b) ==
    CASE inst.adapter = "llamacpp" /\ call.op = "invoke" -> Coalesce(b.content, Str(""))
      [] inst.adapter = "llamacpp" /\ call.op = "encode" -> b.tokens
      [] inst.adapter = "llamacpp" /\ call.op = "decode" -> b.content
      [] inst.adapter = "deepseek" ->
           IF Nullish(b.choices) \/ b.choices.val = << >>
           THEN Str("")
           ELSE Coalesce(b.choices.val[1].text, Str(""))
      [] inst.adapter = "ollama" -> b.response

\* what the call logs about the body
Logged(b) ==
    CASE inst.adapter = "llamacpp" /\ call.op = "invoke" ->
           (IF b.truncated THEN {"truncated"} ELSE {})
             \cup (IF b.timings THEN {"timings"} ELSE {})
      [] inst.adapter = "ollama" -> IF b.evalStats THEN {"evalStats"} ELSE {}
      [] OTHER -> {}

\* an invoke that treats a truncated answer as a failure
OnBodyTruncatedThrows(b) ==
    IF inst.adapter = "llamacpp" /\ call.op = "invoke" /\ b.truncated
    THEN Reject([call EXCEPT !.body = Some(b), !.log = Logged(b)],
                Err("Error", None, None, None))
    ELSE [call EXCEPT !.pc = "returned", !.body = Some(b),
                      !.out = Some(Output(b)), !.log = Logged(b)]

\* the rest of the call once the 2xx body is parsed: log, then return
OnBody(b) ==
    [call EXCEPT !.pc = "returned", !.body = Some(b),
                 !.out = Some(Output(b)), !.log = Logged(b)]

\* the 2xx body arrives and parses
BodyArrive(b) ==
    /\ call.pc = "body"
    /\ call' = OnBody(b)
    /\ UNCHANGED <<store, pending, settled, cfg, runs, catalog, inst>>

\* the 2xx body is not JSON
BodyInvalid ==
    /\ call.pc = "body"
    /\ call' = Reject(call, Err("SyntaxError", None, None, None))
    /\ UNCHANGED <<store, pending, settled, cfg, runs, catalog, inst>>

\* llama.cpp invoke: the error body is read (text), or its read fails (None)
ErrBodyArrive(text) ==
    /\ call.pc = "errBody"
    /\ call' = Reject(call, BackendError(call.resp[1],
                            IF text = None THEN Some("Unknown error") ELSE text))
    /\ UNCHANGED <<store, pending, settled, cfg, runs, catalog, inst>>

\* the caller's signal fires while invoke is awaiting
OnAbort ==
    LET c == [call EXCEPT !.signal = "aborted", !.firedInFlight = TRUE] IN
    CASE call.pc \in {"headers", "body"} -> Reject(c, AbortErr)
      [] call.pc = "errBody" ->
           \* response.text() rejects and the catch turns it into a message
           Reject(c, BackendError(call.resp[1], Some("Unknown error")))
      [] call.pc = "backoff" -> c

Abort ==
    /\ call.op = "invoke"
    /\ call.signal = "live"
    /\ call.pc \in {"headers", "body", "errBody", "backoff"}
    /\ call' = OnAbort
    /\ UNCHANGED <<store, pending, settled, cfg, runs, catalog, inst>>

----------------------------------------------------------------------------
(* Specifications *)

InitFresh ==
    /\ store = << >>
    /\ pending = {}
    /\ settled = {}
    /\ cfg = CfgIdle
    /\ runs = 0
    /\ catalog \in Catalogs
    /\ inst = NoInst
    /\ call = CallIdle

\* records earlier sessions left in the store
StoredRecords(n) ==
    { [contextWindow |-> 32768, baseUrl |-> <<"a">>, model |-> "",
       nickname |-> n, providerId |-> ProviderId("llamacpp")],
      [contextWindow |-> 65536, baseUrl |-> <<"a">>, apiKey |-> <<"k">>,
       model |-> "deepseek-chat", nickname |-> n, providerId |-> ProviderId("deepseek")],
      [contextWindow |-> 8192, baseUrl |-> <<"b">>, model |-> "m1",
       nickname |-> n, providerId |-> ProviderId("ollama")] }

InitStored ==
    /\ store \in {[n \in {"n1"} |-> r] : r \in StoredRecords("n1")}
    /\ pending = {}
    /\ settled = {}
    /\ cfg = CfgIdle
    /\ runs = 0
    /\ catalog \in Catalogs
    /\ inst = NoInst
    /\ call = CallIdle

NextConfigure ==
    \/ \E a \in Adapter, n \in Nick : ConfigureStart(a, n)
    \/ \E v \in KeyInput : ApiKeyInput(v)
    \/ \E v \in UrlInput : BaseUrlInput(v)
    \/ \E ok \in BOOLEAN, ms \in SUBSET RemoteModel : TagsResponse(ok, ms)
    \/ \E c \in {None} \cup {Some(m) : m \in RemoteModel} : PickModel(c)
    \/ \E ok \in BOOLEAN : DownloadDone(ok)
    \/ \E ok \in BOOLEAN : ProbeResponse(ok)
    \/ \E op \in pending : SetComplete(op)
    \/ \E op \in pending : SetFail(op)
    \/ \E a \in Adapter, n \in Nick : Construct(a, n)

NextCall ==
    \/ \E n \in Nick : LoadProvider(n)
    \/ \E ok \in BOOLEAN : Initialize(ok)
    \/ \E sig \in {"none", "live", "aborted"} : InvokeStart(sig)
    \/ \E op \in {"encode", "decode"} : CodecStart(op)
    \/ \E r \in Responses : HeadersArrive(r)
    \/ NetworkFail
    \/ RetrySend
    \/ call.pc = "body" /\ \E b \in Bodies(inst.adapter, call.op) : BodyArrive(b)
    \/ BodyInvalid
    \/ \E t \in {None, Some("oops")} : ErrBodyArrive(t)
    \/ Abort

\* configuration flows and constructors over an empty store
SpecConfigure == InitFresh /\ [][NextConfigure]_vars

\* calls on providers loaded from a populated store
SpecCall == InitStored /\ [][NextCall]_vars

\* one nickname that is reconfigured while a provider loaded from it is in use
NextRace ==
    \/ \E a \in Adapter : ConfigureStart(a, "n1")
    \/ \E v \in KeyInput : ApiKeyInput(v)
    \/ \E v \in UrlInput : BaseUrlInput(v)
    \/ \E ok \in BOOLEAN, ms \in SUBSET RemoteModel : TagsResponse(ok, ms)
    \/ \E c \in {None} \cup {Some(m) : m \in RemoteModel} : PickModel(c)
    \/ \E ok \in BOOLEAN : DownloadDone(ok)
    \/ \E ok \in BOOLEAN : ProbeResponse(ok)
    \/ \E op \in pending : SetComplete(op)
    \/ \E op \in pending : SetFail(op)
    \/ LoadProvider("n1")
    \/ InvokeStart("none")
    \/ \E op \in {"encode", "decode"} : CodecStart(op)
    \/ \E r \in Responses : HeadersArrive(r)
    \/ RetrySend
    \/ call.pc = "body" /\ \E b \in Bodies(inst.adapter, call.op) : BodyArrive(b)
    \/ \E t \in {None, Some("oops")} : ErrBodyArrive(t)

SpecRace == InitStored /\ [][NextRace]_vars

Init == InitFresh
Next == NextConfigure \/ NextCall
Spec == Init /\ [][Next]_vars

----------------------------------------------------------------------------
(* Properties *)

RunSets(r) == {op \in pending : op.run = r}
RunSettled(r) == {s \in settled : s.run = r}

\* C1: constructing any adapter for a nickname that has no record in the
\* store fails with ConfigNotFound, leaves no instance holding a config, and
\* starts no request (no call, no configure step, no storage write); an
\* instance that exists always has a config.
C1_ConstructAbsentFails ==
    /\ [](inst.status = "ok" => inst.config # None)
    /\ [][\A a \in Adapter, n \in Nick :
            (n \notin DOMAIN store /\ Construct(a, n)) =>
                /\ inst'.status = "ConfigNotFound"
                /\ inst'.config = None
                /\ call'.sent = 0
                /\ cfg' = cfg /\ pending' = pending /\ store' = store]_vars

C1_Witness ==
    /\ inst.status = "ConfigNotFound"
    /\ inst.nick \notin DOMAIN store
    /\ inst.adapter = "ollama"

\* the steps of configure that precede its storage.models.set call
PreSetSteps == {"apiKey", "baseUrl", "tags", "noModels", "pick", "download",
                "probe", "metadata"}

\* C2 as stated: a configure run that failed, at whatever step, has not
\* called storage set and has written nothing to the store.
C2_FailedRunNeverCalledSet ==
    cfg.pc = "failed" =>
        /\ "set" \notin cfg.effects
        /\ RunSets(cfg.run) = {} /\ RunSettled(cfg.run) = {}

\* C2, amended: a configure run that failed at a step before persistence
\* (an abandoned input, the model list, no known model, the tokenizer
\* download, the probe, the missing metadata) has not called storage set and
\* has written nothing to the store; the one failing run that has called set
\* is the one whose awaited set rejected, and it wrote nothing either.
C2_FailureBeforeSetLeavesStore ==
    cfg.pc = "failed" =>
        /\ cfg.failedAt \in PreSetSteps =>
              /\ "set" \notin cfg.effects
              /\ RunSets(cfg.run) = {} /\ RunSettled(cfg.run) = {}
        /\ cfg.failedAt \notin PreSetSteps =>
              /\ cfg.failedAt = "persist" /\ cfg.adapter # "llamacpp"
              /\ RunSets(cfg.run) = {}
              /\ RunSettled(cfg.run) = {[run |-> cfg.run, ok |-> FALSE]}

C2_Witness ==
    /\ cfg.pc = "failed" /\ cfg.failedAt = "metadata"
    /\ cfg.adapter = "deepseek" /\ cfg.nick \in DOMAIN store

\* C3: an Ollama configure whose model list holds no model the catalog knows
\* fails with NoModelsFound, never shows the model pick, never downloads a
\* tokenizer, never probes and never calls storage set.
C3_NoModelsFound ==
    (cfg.adapter = "ollama" /\ cfg.modelsList # None
        /\ ModelPickUpItems(cfg.modelsList[1]) = {}) =>
        /\ cfg.pc = "failed" /\ cfg.failedAt = "noModels"
        /\ cfg.effects \cap {"pick", "download", "probe", "set"} = {}
        /\ RunSets(cfg.run) = {} /\ RunSettled(cfg.run) = {}

C3_Witness ==
    /\ cfg.adapter = "ollama" /\ cfg.modelsList = Some({"m2"})
    /\ cfg.pc = "failed"

\* C4 as stated: once configure has resolved, its storage set has completed
\* without failing, and a constructor run now reads a record carrying the
\* configuring adapter's providerId.
C4_ResolvedMeansPersisted ==
    cfg.pc = "resolved" =>
        /\ RunSets(cfg.run) = {}
        /\ RunSettled(cfg.run) = {[run |-> cfg.run, ok |-> TRUE]}
        /\ ConstructResult(cfg.adapter, cfg.nick).status = "ok"
        /\ ConstructResult(cfg.adapter, cfg.nick).config[1].providerId
             = ProviderId(cfg.adapter)

\* C9 as stated: every constructed instance holds a config whose providerId
\* is the one of the class that constructed it.
C9_ProviderIdMatchesClass ==
    inst.status = "ok" => inst.config[1].providerId = ProviderId(inst.adapter)

CallDone == call.pc \in {"returned", "rejected"}
CancellationClass == {"AbortError", "APIUserAbortError"}

\* C5 as stated: a call that ended on a non-2xx answer threw, returned no
\* value, and its error carries the answer's status and a message.
C5_NonOkThrowsStatusAndMessage ==
    (CallDone /\ call.resp # None /\ ~Ok(call.resp[1]) /\ ~call.firedInFlight) =>
        /\ call.pc = "rejected" /\ call.out = None
        /\ call.err[1].status = Some(call.resp[1].status)
        /\ call.err[1].statusText # None \/ call.err[1].body # None

\* the field of a 2xx body that holds the generated text
ContentField(b) ==
    CASE inst.adapter = "llamacpp" -> b.content
      [] inst.adapter = "ollama" -> b.response
      [] inst.adapter = "deepseek" ->
           IF Nullish(b.choices) \/ b.choices.val = << >>
           THEN Undefined ELSE b.choices.val[1].text

\* C6 as stated: invoke only ever returns a string, and the empty string
\* when the 2xx body's content field is absent or empty.
C6_NoContentIsEmptyString ==
    (call.op = "invoke" /\ call.pc = "returned") =>
        /\ call.out[1].type = "string"
        /\ (Nullish(ContentField(call.body[1])) \/ ContentField(call.body[1]) = Str(""))
              => call.out[1] = Str("")

\* C7: invoke called with a signal that is already aborted rejects with a
\* cancellation error, has sent no request, got no answer and returns no text.
C7_PreAbortedSendsNothing ==
    (call.op = "invoke" /\ call.preAborted) =>
        /\ call.pc = "rejected"
        /\ call.err[1].class \in CancellationClass
        /\ call.sent = 0 /\ call.resp = None /\ call.out = None

C7_Witness ==
    /\ call.op = "invoke" /\ call.preAborted /\ call.pc = "rejected"
    /\ inst.adapter = "deepseek"

\* C8 as stated: an invoke whose signal fired while it was in flight ends
\* rejected with a cancellation-class error and returns no text.
C8_AbortInFlightIsCancellation ==
    (call.op = "invoke" /\ call.firedInFlight /\ CallDone) =>
        /\ call.pc = "rejected" /\ call.out = None
        /\ call.err[1].class \in CancellationClass

\* C10 as stated: one call of invoke, encode or decode sends at most one
\* request.
C10_AtMostOneRequest ==
    call.sent <= 1

\* C11: DeepSeek and Ollama encode / decode never send a request (on an
\* initialized instance they return from the local tokenizer); every
\* llama.cpp encode sends exactly one POST /tokenize and every llama.cpp
\* decode exactly one POST /detokenize, with no tokenizer ever acquired.
C11_CodecRequests ==
    (call.op \in {"encode", "decode"}) =>
        IF inst.adapter = "llamacpp"
        THEN /\ call.sent = 1
             /\ call.req[1].endpoint =
                    (IF call.op = "encode" THEN "/tokenize" ELSE "/detokenize")
             /\ inst.tokenizer = None
        ELSE /\ call.sent = 0 /\ call.req = None /\ call.resp = None
             /\ call.pc \in {"returned", "rejected"}
             /\ call.pc = "rejected" => call.err[1].class = "TypeError"

C11_Witness ==
    /\ call.op = "encode" /\ call.pc = "returned" /\ call.sent = 0
    /\ inst.adapter = "deepseek" /\ inst.tokenizer # None

\* C13: a llama.cpp invoke whose 2xx /infill body was read returns, and
\* returns exactly the body's content, or "" when content is absent,
\* whatever the truncated flag and the timings are; these two only reach
\* the log.
C13_InfillReturnsContent ==
    (inst.adapter = "llamacpp" /\ call.op = "invoke" /\ call.body # None) =>
        /\ call.pc = "returned" /\ call.err = None
        /\ call.out = Some(IF call.body[1].content = Undefined
                           THEN Str("") ELSE call.body[1].content)
        /\ call.log = {f \in {"truncated", "timings"} : call.body[1][f]}

C13_Witness ==
    /\ inst.adapter = "llamacpp" /\ call.op = "invoke" /\ call.pc = "returned"
    /\ call.body[1].truncated /\ call.body[1].timings
    /\ call.body[1].content = Str("x") /\ call.out = Some(Str("x"))

\* C12: an instance keeps the config it was constructed with: a storage set
\* that takes effect later (also while a call is in flight) changes the
\* stored record and leaves the instance alone, every request of the
\* instance carries the baseUrl, model and apiKey of that config, and a
\* provider constructed afterwards holds the record stored at that time.
C12_ConfigIsSnapshot ==
    /\ []((inst.status = "ok" /\ call.req # None) =>
            /\ call.req[1].baseUrl = Field(inst.config[1], "baseUrl")
            /\ call.req[1].model \in {None, Field(inst.config[1], "model")}
            /\ call.req[1].apiKey \in {None, Field(inst.config[1], "apiKey")})
    /\ [][(store' # store \/ cfg' # cfg) => inst' = inst]_vars
    /\ [][LoadProvider("n1") => inst'.config = Some(store'["n1"])]_vars

C12_Witness ==
    /\ inst.status = "ok" /\ call.op = "invoke" /\ call.pc = "headers"
    /\ cfg.pc = "resolved" /\ [run |-> cfg.run, ok |-> TRUE] \in settled
    /\ store[inst.nick].baseUrl # inst.config[1].baseUrl
    /\ call.req[1].baseUrl = Some(inst.config[1].baseUrl)

====
